---- MODULE Spec2Model ----
(***************************************************************************)
(* Model of the raster recolouring engine of image_recolour/brand_adapter  *)
(* (class AdvancedBrandingColorAdapter).                                   *)
(*                                                                         *)
(* A colour is a triple <<r, g, b>>, a pixel a 4-tuple <<r, g, b, a>>, a    *)
(* buffer a record [height, width, data] with data a function from        *)
(* <<y, x>> (0-based, as in the source) to pixels.                         *)
(***************************************************************************)
EXTENDS Integers, Sequences, FiniteSets, TLC

\* ---------------------------------------------------------------------
\* Bounds of the model.
\* ---------------------------------------------------------------------
MaxHeight == 2
MaxWidth == 3

\* ---------------------------------------------------------------------
\* Palette (AdvancedBrandingColorAdapter.__init__).
\* ---------------------------------------------------------------------
primary_color == <<7, 27, 44>>
accent_color == <<255, 184, 28>>
white_color == <<255, 255, 255>>

blend_primary_white == <<131, 155, 172>>
blend_primary_accent == <<131, 105, 36>>
blend_accent_white == <<255, 219, 141>>

brand_palette ==
    << primary_color, accent_color, white_color,
       blend_primary_white, blend_primary_accent, blend_accent_white >>

core_palette == << primary_color, accent_color, white_color >>

\* The adapter's two palettes are numpy arrays, mutable objects every
\* lookup and every dither call reads through self: their current contents
\* are state, brand_palette and core_palette above being the contents the
\* constructor gives them.
VARIABLES
    self_brand_palette,   \* self.brand_palette
    self_core_palette     \* self.core_palette

paletteVars == << self_brand_palette, self_core_palette >>

\* ---------------------------------------------------------------------
\* Helpers on colours and sequences.
\* ---------------------------------------------------------------------
RGB(p) == << p[1], p[2], p[3] >>
Alpha(p) == p[4]
WithRGB(c, p) == << c[1], c[2], c[3], p[4] >>
Range(s) == { s[i] : i \in DOMAIN s }
Min2(a, b) == IF a <= b THEN a ELSE b

RECURSIVE SumOver(_, _)
\* sum of f[e] over the domain S of the function f restricted to S
SumOver(S, f) ==
    IF S = {} THEN 0
    ELSE LET e == CHOOSE e \in S : TRUE
         IN f[e] + SumOver(S \ {e}, f)

\* Squared Euclidean distance between scale*a and b (b may be a colour held
\* in units of 1/scale).  np.linalg.norm is the square root of this sum;
\* the square root is strictly increasing, so comparisons and argmin are
\* taken on the squares.
Dist2Scaled(a, b, scale) ==
      (scale * a[1] - b[1]) * (scale * a[1] - b[1])
    + (scale * a[2] - b[2]) * (scale * a[2] - b[2])
    + (scale * a[3] - b[3]) * (scale * a[3] - b[3])

Dist2(a, b) == Dist2Scaled(a, b, 1)

\* np.argmin with the last minimum taken instead of the first.
ArgMinLast(d) ==
    CHOOSE i \in DOMAIN d :
        /\ \A j \in DOMAIN d : d[i] <= d[j]
        /\ \A j \in DOMAIN d : j > i => d[j] > d[i]

\* np.argmin: the index of the first minimum of the sequence d.
ArgMin(d) ==
    CHOOSE i \in DOMAIN d :
        /\ \A j \in DOMAIN d : d[i] <= d[j]
        /\ \A j \in DOMAIN d : j < i => d[j] > d[i]

\* palette[np.argmin(np.linalg.norm(palette - color, axis=1))] for a colour
\* held in units of 1/scale.
ClosestInPalette(palette, color, scale) ==
    palette[ArgMin([i \in DOMAIN palette |-> Dist2Scaled(palette[i], color, scale)])]

\* find_closest_brand_color(color, use_extended_palette): color[:3] drops
\* whatever follows the third component (the alpha of a pixel).
find_closest_brand_color(color, use_extended_palette) ==
    LET c == << color[1], color[2], color[3] >>
        palette == IF use_extended_palette THEN self_brand_palette
                                           ELSE self_core_palette
    IN ClosestInPalette(palette, c, 1)

\* ---------------------------------------------------------------------
\* hex_to_rgb / rgb_to_hex.  A string is a sequence of one-character
\* strings.
\* ---------------------------------------------------------------------
HexLower == << "0", "1", "2", "3", "4", "5", "6", "7", "8", "9",
               "a", "b", "c", "d", "e", "f" >>
HexUpper == << "0", "1", "2", "3", "4", "5", "6", "7", "8", "9",
               "A", "B", "C", "D", "E", "F" >>
HexChars == Range(HexLower) \cup Range(HexUpper)

\* value of one hexadecimal digit, either case (int(.., 16))
HexVal(ch) ==
    (CHOOSE i \in 1..16 : HexLower[i] = ch \/ HexUpper[i] = ch) - 1

RECURSIVE lstrip(_, _)
\* str.lstrip(ch): every leading ch is removed
lstrip(s, ch) ==
    IF s # << >> /\ Head(s) = ch THEN lstrip(Tail(s), ch) ELSE s

\* int(s[i:i+2], 16) for a two-digit slice starting at 0-based offset i
ParsePair(s, i) == 16 * HexVal(s[i + 1]) + HexVal(s[i + 2])

hex_to_rgb(hex_color) ==
    LET h == lstrip(hex_color, "#")
    IN << ParsePair(h, 0), ParsePair(h, 2), ParsePair(h, 4) >>

\* '{:02X}': two upper-case hexadecimal digits, zero padded
Fmt02xUpper(n) == << HexUpper[(n \div 16) + 1], HexUpper[(n % 16) + 1] >>

\* '{:02x}': two lower-case hexadecimal digits, zero padded
Fmt02x(n) == << HexLower[(n \div 16) + 1], HexLower[(n % 16) + 1] >>

\* '#{:02x}{:02x}{:02x}'.format(r, g, b)
rgb_to_hex(rgb_color) ==
    << "#" >> \o Fmt02x(rgb_color[1]) \o Fmt02x(rgb_color[2]) \o Fmt02x(rgb_color[3])

\* str.lower() on a string of hexadecimal digits and '#'
Lower(s) ==
    [i \in DOMAIN s |->
        IF s[i] \in Range(HexUpper) THEN HexLower[HexVal(s[i]) + 1] ELSE s[i]]

\* ---------------------------------------------------------------------
\* Buffers.
\* ---------------------------------------------------------------------
Positions(img) == (0..(img.height - 1)) \X (0..(img.width - 1))
OpaquePositions(img) == { p \in Positions(img) : Alpha(img.data[p]) > 0 }
Buffer(h, w, f) == [height |-> h, width |-> w, data |-> f]

\* the canonicalization tolerance of final_brand_mapping
Tolerance == 5

\* the denominator of the error-diffusion weights; the float buffer of
\* floyd_steinberg_dither is held in units of 1/FloatScale
FloatScale == 16

\* simple_color_mapping: every pixel of the mask (alpha > 0) gets the
\* nearest colour of the extended palette; result is a copy.
simple_color_mapping(img_array) ==
    [img_array EXCEPT !.data =
        [p \in Positions(img_array) |->
            IF Alpha(img_array.data[p]) > 0
            THEN WithRGB(find_closest_brand_color(RGB(img_array.data[p]), TRUE),
                         img_array.data[p])
            ELSE img_array.data[p]]]

\* np.min(distances_to_core), squared
MinCoreDist2(c) ==
    LET d == [i \in DOMAIN self_core_palette |-> Dist2(self_core_palette[i], c)]
    IN d[ArgMin(d)]

\* final_brand_mapping looking the new colour up in the extended palette
final_brand_mapping_extended(img_array) ==
    [img_array EXCEPT !.data =
        [p \in Positions(img_array) |->
            IF /\ Alpha(img_array.data[p]) > 0
               /\ MinCoreDist2(RGB(img_array.data[p])) > Tolerance * Tolerance
            THEN WithRGB(find_closest_brand_color(RGB(img_array.data[p]), TRUE),
                         img_array.data[p])
            ELSE img_array.data[p]]]

\* final_brand_mapping with the test on the mask left out
final_brand_mapping_nomask(img_array) ==
    [img_array EXCEPT !.data =
        [p \in Positions(img_array) |->
            IF MinCoreDist2(RGB(img_array.data[p])) > Tolerance * Tolerance
            THEN WithRGB(find_closest_brand_color(RGB(img_array.data[p]), FALSE),
                         img_array.data[p])
            ELSE img_array.data[p]]]

\* final_brand_mapping writing the new colour in B, G, R order
final_brand_mapping_bgr(img_array) ==
    [img_array EXCEPT !.data =
        [p \in Positions(img_array) |->
            IF /\ Alpha(img_array.data[p]) > 0
               /\ MinCoreDist2(RGB(img_array.data[p])) > Tolerance * Tolerance
            THEN LET c == find_closest_brand_color(RGB(img_array.data[p]), FALSE)
                 IN WithRGB(<< c[3], c[2], c[1] >>, img_array.data[p])
            ELSE img_array.data[p]]]

\* final_brand_mapping replacing from the tolerance on (>= 5)
final_brand_mapping_ge(img_array) ==
    [img_array EXCEPT !.data =
        [p \in Positions(img_array) |->
            IF /\ Alpha(img_array.data[p]) > 0
               /\ MinCoreDist2(RGB(img_array.data[p])) >= Tolerance * Tolerance
            THEN WithRGB(find_closest_brand_color(RGB(img_array.data[p]), FALSE),
                         img_array.data[p])
            ELSE img_array.data[p]]]

\* final_brand_mapping: a pixel of the mask whose distance to the nearest
\* core colour is above the tolerance gets that core colour; result is a
\* copy.
final_brand_mapping(img_array) ==
    [img_array EXCEPT !.data =
        [p \in Positions(img_array) |->
            IF /\ Alpha(img_array.data[p]) > 0
               /\ MinCoreDist2(RGB(img_array.data[p])) > Tolerance * Tolerance
            THEN WithRGB(find_closest_brand_color(RGB(img_array.data[p]), FALSE),
                         img_array.data[p])
            ELSE img_array.data[p]]]

\* ---------------------------------------------------------------------
\* The smoothing stages.  scipy.ndimage.gaussian_filter and
\* cv2.bilateralFilter are library routines: what the adapter's own code
\* fixes is that they are applied to the R, G, B channels of every pixel
\* (transparent ones included) and that the alpha channel is copied from
\* the input.  Their numeric result is left open: the R, G, B of the
\* output are any recolouring of the colours present in the input.
\* ---------------------------------------------------------------------
ColoursOf(img) == { RGB(img.data[p]) : p \in Positions(img) }

Recolourings(img) ==
    { [img EXCEPT !.data =
          [p \in Positions(img) |-> WithRGB(f[RGB(img.data[p])], img.data[p])]]
      : f \in [ColoursOf(img) -> ColoursOf(img)] }

\* apply_gaussian_blur without the copy of the alpha channel (line 74):
\* the result buffer keeps the zeros np.zeros_like gave its alpha
apply_gaussian_blur_noalpha(img_array, sigma) ==
    { [b EXCEPT !.data =
          [p \in Positions(b) |-> << b.data[p][1], b.data[p][2], b.data[p][3], 0 >>]]
      : b \in Recolourings(img_array) }

\* apply_gaussian_blur(img_array, sigma): the set of possible results
apply_gaussian_blur(img_array, sigma) == Recolourings(img_array)

\* edge_preserving_filter(img_array): the set of possible results
edge_preserving_filter(img_array) == Recolourings(img_array)

\* ---------------------------------------------------------------------
\* The output steps of process_raster_image_advanced.
\* Image.filter(ImageFilter.SMOOTH_MORE) is PIL's 5x5 kernel filter
\*     1 1  1 1 1 / 1 5  5 5 1 / 1 5 44 5 1 / 1 5  5 5 1 / 1 1  1 1 1
\* of scale 100 and offset 0.  It filters every band of the image, the
\* alpha band of an RGBA image included; an image narrower or lower than
\* the kernel is returned as a copy, and so are the pixels nearer than two
\* to a border; every other pixel becomes the weighted sum of its 5x5
\* neighbourhood divided by the scale, rounded to nearest.
\* ---------------------------------------------------------------------
KernelSize == 5
KernelScale == 100
KernelCentre == 44
KernelInner == 5
KernelOuter == 1

SMOOTH_MORE(dy, dx) ==
    IF dy = 0 /\ dx = 0 THEN KernelCentre
    ELSE IF dy \in -1..1 /\ dx \in -1..1 THEN KernelInner
    ELSE KernelOuter

KernelOffsets == (-2..2) \X (-2..2)

Filtered(img, p, i) ==
    (SumOver(KernelOffsets,
             [d \in KernelOffsets |->
                 SMOOTH_MORE(d[1], d[2]) * img.data[<< p[1] + d[1], p[2] + d[2] >>][i]])
       + KernelScale \div 2) \div KernelScale

\* new_img.filter(ImageFilter.SMOOTH_MORE)
filter(img) ==
    IF img.width < KernelSize \/ img.height < KernelSize
    THEN img
    ELSE [img EXCEPT !.data =
            [p \in Positions(img) |->
                IF /\ p[1] >= 2 /\ p[1] < img.height - 2
                   /\ p[2] >= 2 /\ p[2] < img.width - 2
                THEN [i \in 1..4 |-> Filtered(img, p, i)]
                ELSE img.data[p]]]

\* rgb_img.paste(new_img, mask=alpha) on a white RGB image: each channel
\* is blended with 255 by the pixel's alpha, divided by 255 and rounded.
Blend255(v, a) == (255 * (255 - a) + v * a + 127) \div 255

paste_on_white(img) ==
    [img EXCEPT !.data =
        [p \in Positions(img) |->
            << Blend255(img.data[p][1], img.data[p][4]),
               Blend255(img.data[p][2], img.data[p][4]),
               Blend255(img.data[p][3], img.data[p][4]) >>]]

\* the extensions of output_path the save step tells apart
Formats == { "png", "jpg" }

\* ---------------------------------------------------------------------
\* smart_color_quantization.
\* ---------------------------------------------------------------------
\* n_clusters handed to KMeans without the clamp on the distinct colours
NClustersUnclamped(n_clusters, distinct) == n_clusters

\* min(n_clusters, len(np.unique(pixels ..., axis=0)))
NClusters(n_clusters, distinct) == Min2(n_clusters, distinct)

\* the colours of the opaque pixels (the rows of `pixels`)
OpaqueColours(img) == { RGB(img.data[p]) : p \in OpaquePositions(img) }

\* sklearn.cluster.KMeans is a library routine with an unseeded random
\* initialisation.  What is used of it: fit raises ValueError when asked
\* for more clusters than there are samples; otherwise the samples are
\* split into non-empty clusters (as many as asked for, or as many as
\* there are distinct samples when fewer), equal samples share a cluster,
\* and each centre is the mean of its cluster.  Which split comes out is
\* left open: Labelings is every split.
Labelings(colours, n) ==
    LET m == Min2(n, Cardinality(colours))
    IN { f \in [colours -> 1..m] : \A j \in 1..m : \E c \in colours : f[c] = j }

\* sum of channel ch over the opaque pixels of cluster j, and their number
ClusterSum(img, lab, j, ch) ==
    LET members == { p \in OpaquePositions(img) : lab[RGB(img.data[p])] = j }
    IN SumOver(members, [p \in members |-> img.data[p][ch]])

ClusterSize(img, lab, j) ==
    Cardinality({ p \in OpaquePositions(img) : lab[RGB(img.data[p])] = j })

\* the centre of cluster j looked up in the core palette
MappedCenterCore(img, lab, j) ==
    ClosestInPalette(self_core_palette,
                     << ClusterSum(img, lab, j, 1), ClusterSum(img, lab, j, 2),
                        ClusterSum(img, lab, j, 3) >>,
                     ClusterSize(img, lab, j))

\* find_closest_brand_color(center, use_extended_palette=True) for the
\* centre of cluster j: the centre is sum / size, so the distances are
\* compared in units of 1/size.
MappedCenter(img, lab, j) ==
    ClosestInPalette(self_brand_palette,
                     << ClusterSum(img, lab, j, 1), ClusterSum(img, lab, j, 2),
                        ClusterSum(img, lab, j, 3) >>,
                     ClusterSize(img, lab, j))

\* result[mask, :3] = mapped_centers[labels]
ApplyLabels(img, lab) ==
    [img EXCEPT !.data =
        [p \in Positions(img) |->
            IF Alpha(img.data[p]) > 0
            THEN WithRGB(MappedCenter(img, lab, lab[RGB(img.data[p])]), img.data[p])
            ELSE img.data[p]]]

\* The possible outcomes of smart_color_quantization(img_array, n_clusters):
\* raised tells whether KMeans raised, buf is the returned buffer, requested
\* / distinct / used are n_clusters, the number of distinct opaque colours
\* and the cluster count handed to KMeans (0 when KMeans is not reached),
\* labels is the cluster kmeans.predict gives each opaque colour.
smart_color_quantization(img_array, n_clusters) ==
    LET colours == OpaqueColours(img_array)
        distinct == Cardinality(colours)
        n == NClusters(n_clusters, distinct)
        info == [requested |-> n_clusters, distinct |-> distinct, used |-> n,
                 labels |-> << >>]
    IN IF OpaquePositions(img_array) = {}
       THEN { [raised |-> FALSE, buf |-> img_array,
               info |-> [info EXCEPT !.used = 0]] }
       ELSE IF n > Cardinality(OpaquePositions(img_array))
       THEN { [raised |-> TRUE, buf |-> img_array, info |-> info] }
       ELSE { [raised |-> FALSE, buf |-> ApplyLabels(img_array, lab),
               info |-> [info EXCEPT !.labels = lab]]
              : lab \in Labelings(colours, n) }

\* ---------------------------------------------------------------------
\* floyd_steinberg_dither.  `result` is a float copy of the input, held
\* in units of 1/FloatScale.
\* ---------------------------------------------------------------------
\* img_array.copy().astype(float)
ToFloat(img) ==
    [img EXCEPT !.data =
        [p \in Positions(img) |-> [i \in 1..4 |-> FloatScale * img.data[p][i]]]]

\* np.clip(result, 0, 255).astype(np.uint8): clip, then drop the fraction
ClipChannel(v) ==
    IF v < 0 THEN 0
    ELSE IF v > 255 * FloatScale THEN 255
    ELSE v \div FloatScale

ClipToUint8(result) ==
    [result EXCEPT !.data =
        [p \in Positions(result) |-> [i \in 1..4 |-> ClipChannel(result.data[p][i])]]]

\* the pixels the two loops visit: range(height - 1) x range(1, width - 1)
InScan(y, x, height, width) ==
    /\ y \in 0..(height - 2)
    /\ x \in 1..(width - 2)

\* the loop position after (y, x): the next column, or the next row
NextScan(y, x, height, width) ==
    IF x + 1 \in 1..(width - 2) THEN << y, x + 1 >> ELSE << y + 1, 1 >>

\* number of loop positions still to come from (y, x) on, to the end
ScanRemaining(y, x, height, width) ==
    Cardinality({ q \in (0..(height - 2)) \X (1..(width - 2)) :
                    q[1] > y \/ (q[1] = y /\ q[2] >= x) })

\* error spread to the left neighbour instead of the right one
ErrorTargetsLeft(y, x, height, width) ==
       (IF x - 1 >= 0 THEN { << << y, x - 1 >>, 7 >> } ELSE {})
  \cup (IF y + 1 < height /\ x - 1 >= 0 THEN { << << y + 1, x - 1 >>, 3 >> } ELSE {})
  \cup (IF y + 1 < height THEN { << << y + 1, x >>, 5 >> } ELSE {})
  \cup (IF y + 1 < height /\ x + 1 < width THEN { << << y + 1, x + 1 >>, 1 >> } ELSE {})

\* the neighbours the error of (y, x) is added to, each with the numerator
\* of its weight
ErrorTargets(y, x, height, width) ==
       (IF x + 1 < width THEN { << << y, x + 1 >>, 7 >> } ELSE {})
  \cup (IF y + 1 < height /\ x - 1 >= 0 THEN { << << y + 1, x - 1 >>, 3 >> } ELSE {})
  \cup (IF y + 1 < height THEN { << << y + 1, x >>, 5 >> } ELSE {})
  \cup (IF y + 1 < height /\ x + 1 < width THEN { << << y + 1, x + 1 >>, 1 >> } ELSE {})

\* result[t, :3] += error * wgt / 16 for every target t
AddError(result, targets, error) ==
    [result EXCEPT !.data =
        [p \in Positions(result) |->
            IF \E t \in targets : t[1] = p
            THEN LET wgt == (CHOOSE t \in targets : t[1] = p)[2]
                     old == result.data[p]
                 IN << old[1] + (error[1] * wgt) \div FloatScale,
                       old[2] + (error[2] * wgt) \div FloatScale,
                       old[3] + (error[3] * wgt) \div FloatScale,
                       old[4] >>
            ELSE result.data[p]]]

\* error = old_pixel - new_pixel.  old_pixel = result[y, x, :3] is a numpy
\* view of result, not a copy: it is read here after result[y, x, :3] has
\* been assigned new_pixel, so it reads what was written.
ErrorOf(before, written, y, x, new_pixel) ==
    [i \in 1..3 |-> written.data[<< y, x >>][i] - FloatScale * new_pixel[i]]

\* new_pixel = palette[np.argmin(distances)] is a numpy view of a row of the
\* palette argument, which is the adapter's own array.  A body that assigned
\* through the view (here: the visited pixel's value stored into new_pixel)
\* would rewrite that row of the palette.
PaletteWrittenThrough(palette, old_pixel) ==
    LET i == ArgMin([k \in DOMAIN palette |->
                        Dist2Scaled(palette[k], old_pixel, FloatScale)])
    IN [palette EXCEPT ![i] = << ClipChannel(old_pixel[1]),
                                 ClipChannel(old_pixel[2]),
                                 ClipChannel(old_pixel[3]) >>]

\* The loop body only reads the view (result[y, x, :3] = new_pixel and
\* error = old_pixel - new_pixel build new values): the palette argument
\* after one pass of the body for an opaque pixel of value old_pixel.
PaletteAfterVisit(palette, old_pixel) == palette

\* The body of the loops for an opaque pixel (y, x): the buffer after the
\* pixel is written and the error spread.
QuantizeAndSpread(result, y, x, palette) ==
    LET new_pixel == ClosestInPalette(palette, RGB(result.data[<< y, x >>]), FloatScale)
        written == [result EXCEPT !.data[<< y, x >>] =
                       << FloatScale * new_pixel[1], FloatScale * new_pixel[2],
                          FloatScale * new_pixel[3], @[4] >>]
        error == ErrorOf(result, written, y, x, new_pixel)
    IN AddError(written, ErrorTargets(y, x, result.height, result.width), error)

\* ---------------------------------------------------------------------
\* Inputs.
\* ---------------------------------------------------------------------
\* the strategy values handed to process_raster_image_advanced; "posterize"
\* stands for any value the dispatcher does not name
Methods == { "smart", "dithered", "smooth", "hybrid", "fallback", "posterize" }

\* pixels of the images run through the dispatcher
PipelinePixels ==
    { << 0, 0, 0, 0 >>, << 200, 100, 50, 0 >>,
      << 255, 0, 0, 255 >>, << 10, 10, 10, 255 >>, << 7, 27, 47, 255 >>,
      << 131, 105, 36, 255 >>, << 255, 219, 141, 128 >> }

\* pixels of the buffers handed to final_brand_mapping directly: the above,
\* the core colours, and colours at distance 5 and 6 of a core colour
CanonPixels ==
    PipelinePixels \cup
    { << 7, 27, 44, 255 >>, << 255, 184, 28, 255 >>, << 255, 255, 255, 255 >>,
      << 10, 31, 44, 255 >>, << 7, 27, 50, 255 >>, << 255, 250, 255, 255 >> }

Shapes == (1..MaxHeight) \X (1..MaxWidth)

\* buffers of one pixel value, and buffers of one pixel value with a single
\* pixel of another value
BuffersOver(pixels) ==
    { Buffer(s[1], s[2], [p \in (0..(s[1] - 1)) \X (0..(s[2] - 1)) |-> bg])
        : s \in Shapes, bg \in pixels }
    \cup
    UNION { { Buffer(s[1], s[2],
                   [p \in (0..(s[1] - 1)) \X (0..(s[2] - 1)) |->
                       IF p = spot THEN fg ELSE bg])
                : spot \in (0..(s[1] - 1)) \X (0..(s[2] - 1)) }
            : s \in Shapes, bg \in pixels, fg \in pixels }

\* the 2x2 image of the fallback scenario
ScenarioBuffer ==
    Buffer(2, 2, [p \in (0..1) \X (0..1) |->
        IF p = << 0, 0 >> THEN << 255, 0, 0, 255 >>
        ELSE IF p = << 0, 1 >> THEN << 0, 255, 0, 255 >>
        ELSE IF p = << 1, 0 >> THEN << 0, 0, 255, 255 >>
        ELSE << 10, 10, 10, 255 >>])

\* a 5x5 image, the smallest whose centre the final smoothing filters:
\* opaque white around an opaque red centre, one transparent pixel beside it
SmoothingBuffer ==
    Buffer(5, 5, [p \in (0..4) \X (0..4) |->
        IF p = << 2, 2 >> THEN << 255, 0, 0, 255 >>
        ELSE IF p = << 1, 1 >> THEN << 0, 0, 0, 0 >>
        ELSE << 255, 255, 255, 255 >>])

InputBuffers == BuffersOver(PipelinePixels) \cup { ScenarioBuffer, SmoothingBuffer }

\* cluster counts of the direct calls of smart_color_quantization
ClusterCounts == { 1, 2, 6, 8 }

\* channel values of the colours handed to find_closest_brand_color
ChannelSamples == { 0, 10, 27, 44, 106, 131, 177, 184, 255 }

\* colours with and without a fourth (alpha) component
ClosestInputs ==
    { << r, g, b >> : r \in ChannelSamples, g \in ChannelSamples, b \in ChannelSamples }
    \cup
    { << r, g, b, a >> : r \in ChannelSamples, g \in ChannelSamples,
                         b \in ChannelSamples, a \in { 0, 255 } }

\* six hexadecimal digits, with and without a leading '#'
HexInputs ==
    LET six == { << a, b, c, a, b, c >> :
                    a \in HexChars, b \in HexChars, c \in { "0", "9", "a", "F" } }
    IN six \cup { << "#" >> \o s : s \in six }

NoBuffer == [height |-> 0, width |-> 0, data |-> << >>]
NoInfo == [requested |-> 0, distinct |-> 0, used |-> 0, labels |-> << >>]
NoSaved == [format |-> "none", image |-> NoBuffer]

\* what _process_single_method can meet in a file of its list: an SVG
\* (process_svg), a raster image that decodes, a raster file Image.open
\* rejects; and whether the directory of its output can be made
Kinds == { "svg", "raster", "corrupt" }
FileEntries == [kind : Kinds, dir_ok : BOOLEAN]
MaxFiles == 3
FileLists == UNION { [1..n -> FileEntries] : n \in 0..MaxFiles }

\* ---------------------------------------------------------------------
\* MapArtGenerator._query_overpass (src/test.py).
\* What requests.post can do at one attempt: raise (timeout, connection
\* error), or answer with a status and a body.  response.json() raises on a
\* body that is no JSON, and gives a dict, a list, a str, a number or None
\* otherwise.  has tells whether 'elements' is a key of the dict, an item of
\* the list, a substring of the str.
\* ---------------------------------------------------------------------
max_retries == 3
SleepSeconds == 2

JsonValues ==
    [type : { "dict", "list" }, has : BOOLEAN]
      \cup { [type |-> "str", has |-> TRUE], [type |-> "number", has |-> FALSE] }

\* no value
NoData == [type |-> "none", has |-> FALSE]

Responses ==
    { [raises |-> TRUE, status |-> 0, json |-> "none", data |-> NoData],
      [raises |-> FALSE, status |-> 500, json |-> "none", data |-> NoData],
      [raises |-> FALSE, status |-> 200, json |-> "invalid", data |-> NoData] }
      \cup { [raises |-> FALSE, status |-> 200, json |-> "valid", data |-> v]
               : v \in JsonValues }

\* what the server does at each of the attempts that may be made
ResponseLists == [1..max_retries -> Responses]

\* 'elements' in data: membership of a dict's keys, of a list's items, of a
\* str's substrings; TypeError for a number
InRaises(data) == data.type = "number"
In(data) == data.has

\* the value of {'elements': []}
FallbackData == [type |-> "dict", has |-> TRUE]

\* ---------------------------------------------------------------------
\* Parameters the dispatcher passes.
\* ---------------------------------------------------------------------
\* n_clusters of method 'smart' (the default of smart_color_quantization)
SmartClusters == 8
\* n_clusters of method 'hybrid'
HybridClusters == 6
\* sigma of method 'smooth', in tenths
SmoothSigmaTenths == 6

\* ---------------------------------------------------------------------
\* State.
\* ---------------------------------------------------------------------
VARIABLES
    pc,           \* where the run stands
    method,       \* the strategy of process_raster_image_advanced
    img_array,    \* the decoded input buffer
    cur,          \* the buffer handed from stage to stage (blurred, filtered,
                  \* quantized, processed_array)
    result,       \* floyd_steinberg_dither: the float buffer
    scan,         \* floyd_steinberg_dither: the loop position << y, x >>
    palette,      \* floyd_steinberg_dither: the palette argument
    errorWrites,  \* floyd_steinberg_dither: the coordinates error was added to
    km,           \* smart_color_quantization: requested / distinct / used
    calls,        \* the stages called so far, in order, with their parameter
    again,        \* the result of a second final_brand_mapping pass
    new_img,      \* process_raster_image_advanced: the image after the
                  \* final smoothing
    saved,        \* process_raster_image_advanced: the format and the image
                  \* handed to save
    files,        \* _process_single_method: the list of files
    idx,          \* _process_single_method: the loop index i
    attempts,     \* _process_single_method: how often each file's
                  \* process_* call was entered
    failed,       \* _process_single_method: the files logged as failed
    responses,    \* _query_overpass: what the server does at each attempt
    attempt,      \* _query_overpass: the loop variable
    requests,     \* _query_overpass: the attempts at which a request was sent
    sleeps,       \* _query_overpass: the attempts after which it slept
    raised,       \* _query_overpass: an exception left the method
    returned,     \* _query_overpass: the value returned
    stage_arg,    \* the last stage called: its input buffer as it was handed
    arg_after,    \* the last stage called: what its input buffer holds now
    hex_color,    \* hex_to_rgb: the argument
    rgb_color,    \* hex_to_rgb: the result
    hex_result,   \* rgb_to_hex: the result
    color,        \* find_closest_brand_color: the argument
    use_extended_palette,  \* find_closest_brand_color: the flag
    closest       \* find_closest_brand_color: the result

vars == << pc, method, img_array, cur, result, scan, palette, errorWrites, km,
           calls, again, hex_color, rgb_color, hex_result, color,
           use_extended_palette, closest, self_brand_palette,
           self_core_palette, new_img, saved, files, idx, attempts, failed,
           stage_arg, arg_after, responses, attempt, requests, sleeps,
           raised, returned >>

imageVars == << method, img_array, cur, result, scan, palette, errorWrites, km,
                calls, again, new_img, saved, stage_arg, arg_after >>
stageVars == << stage_arg, arg_after >>

\* a stage working in place (result = img_array, no copy): the input buffer
\* holds the result
InputWrittenInPlace(arg, out) == out

\* Every stage builds its result in an array of its own - np.zeros_like
\* (line 69), np.dstack (line 146), img_array.copy() (lines 80, 129, 229,
\* 243) - and only reads img_array: what the input buffer holds when the
\* stage returns.
InputAfterReturn(arg, out) == arg

\* a stage called with input `before` returns `after`
StageCalled(before, after) ==
    /\ stage_arg' = before
    /\ arg_after' = InputAfterReturn(before, after)
outputVars == << new_img, saved >>
batchVars == << files, idx, attempts, failed >>
queryVars == << responses, attempt, requests, sleeps, raised, returned >>
hexVars == << hex_color, rgb_color, hex_result >>
closestVars == << color, use_extended_palette, closest >>
ditherVars == << result, scan, palette, errorWrites >>

ImageIdle ==
    /\ method = "none"
    /\ img_array = NoBuffer
    /\ cur = NoBuffer
    /\ result = NoBuffer
    /\ scan = << 0, 0 >>
    /\ palette = << >>
    /\ errorWrites = {}
    /\ km = NoInfo
    /\ calls = << >>
    /\ again = NoBuffer
    /\ new_img = NoBuffer
    /\ saved = NoSaved
    /\ stage_arg = NoBuffer
    /\ arg_after = NoBuffer

BatchIdle ==
    /\ files = << >>
    /\ idx = 0
    /\ attempts = << >>
    /\ failed = << >>

QueryIdle ==
    /\ responses = << >>
    /\ attempt = 0
    /\ requests = << >>
    /\ sleeps = << >>
    /\ raised = FALSE
    /\ returned = NoData

HexIdle ==
    /\ hex_color = << >>
    /\ rgb_color = << >>
    /\ hex_result = << >>

ClosestIdle ==
    /\ color = << >>
    /\ use_extended_palette = FALSE
    /\ closest = << >>

\* a whole-image transform: process_raster_image_advanced right after
\* img_array = np.array(img)
InitTransform ==
    /\ pc = "dispatch"
    /\ method \in Methods
    /\ img_array \in InputBuffers
    /\ cur = img_array
    /\ result = NoBuffer
    /\ scan = << 0, 0 >>
    /\ palette = << >>
    /\ errorWrites = {}
    /\ km = NoInfo
    /\ calls = << >>
    /\ again = NoBuffer
    /\ new_img = NoBuffer
    /\ saved = NoSaved
    /\ stage_arg = NoBuffer
    /\ arg_after = NoBuffer
    /\ HexIdle
    /\ ClosestIdle
    /\ BatchIdle
    /\ QueryIdle

\* a direct call of one stage on a buffer: final_brand_mapping (twice) or
\* smart_color_quantization
InitStageCall ==
    /\ pc \in { "canon_call", "quant_call" }
    /\ method = "none"
    /\ img_array \in (IF pc = "canon_call" THEN BuffersOver(CanonPixels)
                      ELSE InputBuffers)
    /\ cur = img_array
    /\ result = NoBuffer
    /\ scan = << 0, 0 >>
    /\ palette = << >>
    /\ errorWrites = {}
    /\ km = NoInfo
    /\ calls = << >>
    /\ again = NoBuffer
    /\ new_img = NoBuffer
    /\ saved = NoSaved
    /\ stage_arg = NoBuffer
    /\ arg_after = NoBuffer
    /\ HexIdle
    /\ ClosestIdle
    /\ BatchIdle
    /\ QueryIdle

InitHex ==
    /\ pc = "hex_call"
    /\ hex_color \in HexInputs
    /\ rgb_color = << >>
    /\ hex_result = << >>
    /\ ImageIdle
    /\ BatchIdle
    /\ QueryIdle
    /\ ClosestIdle

InitClosest ==
    /\ pc = "closest_call"
    /\ color \in ClosestInputs
    /\ use_extended_palette \in BOOLEAN
    /\ closest = << >>
    /\ ImageIdle
    /\ BatchIdle
    /\ QueryIdle
    /\ HexIdle

\* _process_single_method right after the list of files is built
InitBatch ==
    /\ pc = "batch"
    /\ files \in FileLists
    /\ idx = 1
    /\ attempts = [i \in DOMAIN files |-> 0]
    /\ failed = << >>
    /\ ImageIdle
    /\ HexIdle
    /\ ClosestIdle
    /\ QueryIdle

\* _query_overpass at its first attempt
InitQuery ==
    /\ pc = "query_try"
    /\ responses \in ResponseLists
    /\ attempt = 0
    /\ requests = << >>
    /\ sleeps = << >>
    /\ raised = FALSE
    /\ returned = NoData
    /\ ImageIdle
    /\ HexIdle
    /\ ClosestIdle
    /\ BatchIdle

\* __init__ (lines 33-46) has built the two palettes
InitPalettes ==
    /\ self_brand_palette = brand_palette
    /\ self_core_palette = core_palette

Init ==
    /\ InitPalettes
    /\ \/ InitTransform
       \/ InitStageCall
       \/ InitHex
       \/ InitClosest
       \/ InitBatch
       \/ InitQuery

\* ---------------------------------------------------------------------
\* process_raster_image_advanced: the dispatcher.
\* ---------------------------------------------------------------------
\* one call of smart_color_quantization on cur, continuing at `next`
Quantize(n_clusters, next) ==
    \E o \in smart_color_quantization(cur, n_clusters) :
        /\ km' = o.info
        /\ cur' = o.buf
        /\ pc' = IF o.raised THEN "error" ELSE next
        /\ calls' = Append(calls, << "quantize", n_clusters >>)
        /\ StageCalled(cur, o.buf)

\* entry of floyd_steinberg_dither(cur, pal)
StartDither(pal, name) ==
    /\ result' = ToFloat(cur)
    /\ scan' = << 0, 1 >>
    /\ palette' = pal
    /\ errorWrites' = {}
    /\ pc' = "dither"
    /\ calls' = Append(calls, << "dither", name >>)
    /\ stage_arg' = cur
    /\ arg_after' = cur

\* method == 'smart'
Smart ==
    /\ pc = "dispatch"
    /\ method = "smart"
    /\ Quantize(SmartClusters, "final")
    /\ UNCHANGED << method, img_array, ditherVars, again, hexVars, closestVars, paletteVars, outputVars, batchVars, queryVars >>

\* method == 'dithered'
Dithered ==
    /\ pc = "dispatch"
    /\ method = "dithered"
    /\ StartDither(self_brand_palette, "brand_palette")
    /\ UNCHANGED << method, img_array, cur, km, again, hexVars, closestVars, paletteVars, outputVars, batchVars, queryVars >>

\* method == 'smooth': blurred = apply_gaussian_blur(img_array, sigma=0.6)
SmoothBlur ==
    /\ pc = "dispatch"
    /\ method = "smooth"
    /\ cur' \in apply_gaussian_blur(cur, SmoothSigmaTenths)
    /\ pc' = "smooth_filter"
    /\ calls' = Append(calls, << "blur", SmoothSigmaTenths >>)
    /\ StageCalled(cur, cur')
    /\ UNCHANGED << method, img_array, ditherVars, km, again, hexVars, closestVars, paletteVars, outputVars, batchVars, queryVars >>

\* filtered = edge_preserving_filter(blurred)
SmoothFilter ==
    /\ pc = "smooth_filter"
    /\ cur' \in edge_preserving_filter(cur)
    /\ pc' = "smooth_map"
    /\ calls' = Append(calls, << "edge", 0 >>)
    /\ StageCalled(cur, cur')
    /\ UNCHANGED << method, img_array, ditherVars, km, again, hexVars, closestVars, paletteVars, outputVars, batchVars, queryVars >>

\* processed_array = simple_color_mapping(filtered)
SmoothMap ==
    /\ pc = "smooth_map"
    /\ cur' = simple_color_mapping(cur)
    /\ pc' = "final"
    /\ calls' = Append(calls, << "map", 0 >>)
    /\ StageCalled(cur, cur')
    /\ UNCHANGED << method, img_array, ditherVars, km, again, hexVars, closestVars, paletteVars, outputVars, batchVars, queryVars >>

\* method == 'hybrid': filtered = edge_preserving_filter(img_array)
HybridFilter ==
    /\ pc = "dispatch"
    /\ method = "hybrid"
    /\ cur' \in edge_preserving_filter(cur)
    /\ pc' = "hybrid_quantize"
    /\ calls' = Append(calls, << "edge", 0 >>)
    /\ StageCalled(cur, cur')
    /\ UNCHANGED << method, img_array, ditherVars, km, again, hexVars, closestVars, paletteVars, outputVars, batchVars, queryVars >>

\* quantized = smart_color_quantization(filtered, n_clusters=6)
HybridQuantize ==
    /\ pc = "hybrid_quantize"
    /\ Quantize(HybridClusters, "hybrid_dither")
    /\ UNCHANGED << method, img_array, ditherVars, again, hexVars, closestVars, paletteVars, outputVars, batchVars, queryVars >>

\* the last stage of 'hybrid' dithering with the extended palette
HybridDitherBrand ==
    /\ pc = "hybrid_dither"
    /\ StartDither(self_brand_palette, "brand_palette")
    /\ UNCHANGED << method, img_array, cur, km, again, hexVars, closestVars, paletteVars, outputVars, batchVars, queryVars >>

\* processed_array = floyd_steinberg_dither(quantized, core_palette)
HybridDither ==
    /\ pc = "hybrid_dither"
    /\ StartDither(self_core_palette, "core_palette")
    /\ UNCHANGED << method, img_array, cur, km, again, hexVars, closestVars, paletteVars, outputVars, batchVars, queryVars >>

\* the else branch taken for 'fallback' only, any other value being
\* rejected with an error
FallbackRejectsUnknown ==
    /\ pc = "dispatch"
    /\ method \notin { "smart", "dithered", "smooth", "hybrid" }
    /\ IF method = "fallback"
       THEN /\ cur' = simple_color_mapping(cur)
            /\ pc' = "final"
            /\ calls' = Append(calls, << "map", 0 >>)
       ELSE /\ pc' = "error"
            /\ UNCHANGED << cur, calls >>
    /\ UNCHANGED << method, img_array, ditherVars, km, again, hexVars, closestVars, paletteVars, outputVars, batchVars, stageVars, queryVars >>

\* the else branch handing its buffer on without the canonicalization
FallbackSkipsFinal ==
    /\ pc = "dispatch"
    /\ method \notin { "smart", "dithered", "smooth", "hybrid" }
    /\ cur' = simple_color_mapping(cur)
    /\ pc' = "done"
    /\ calls' = Append(calls, << "map", 0 >>)
    /\ StageCalled(cur, cur')
    /\ UNCHANGED << method, img_array, ditherVars, km, again, hexVars, closestVars, paletteVars, outputVars, batchVars, queryVars >>

\* else: processed_array = simple_color_mapping(img_array)
Fallback ==
    /\ pc = "dispatch"
    /\ method \notin { "smart", "dithered", "smooth", "hybrid" }
    /\ cur' = simple_color_mapping(cur)
    /\ pc' = "final"
    /\ calls' = Append(calls, << "map", 0 >>)
    /\ StageCalled(cur, cur')
    /\ UNCHANGED << method, img_array, ditherVars, km, again, hexVars, closestVars, paletteVars, outputVars, batchVars, queryVars >>

\* processed_array = final_brand_mapping(processed_array)
Final ==
    /\ pc = "final"
    /\ cur' = final_brand_mapping(cur)
    /\ pc' = "done"
    /\ calls' = Append(calls, << "final", 0 >>)
    /\ StageCalled(cur, cur')
    /\ UNCHANGED << method, img_array, ditherVars, km, again, hexVars, closestVars, paletteVars, outputVars, batchVars, queryVars >>

\* new_img = Image.fromarray(processed_array, 'RGBA') and
\* new_img = new_img.filter(ImageFilter.SMOOTH_MORE)
FinalSmoothing ==
    /\ pc = "done"
    /\ new_img' = filter(cur)
    /\ pc' = "save"
    /\ calls' = Append(calls, << "smooth_more", 0 >>)
    /\ UNCHANGED << method, img_array, cur, ditherVars, km, again, saved,
                    hexVars, closestVars, paletteVars, batchVars, stageVars, queryVars >>

\* the save step: a JPEG is the image pasted on white through its alpha,
\* anything else is saved as PNG
Save ==
    /\ pc = "save"
    /\ \E format \in Formats :
          saved' = [format |-> format,
                    image |-> IF format = "jpg" THEN paste_on_white(new_img)
                              ELSE new_img]
    /\ pc' = "saved"
    /\ calls' = Append(calls, << "save", 0 >>)
    /\ UNCHANGED << method, img_array, cur, ditherVars, km, again, new_img,
                    hexVars, closestVars, paletteVars, batchVars, stageVars, queryVars >>

\* ---------------------------------------------------------------------
\* floyd_steinberg_dither: the loops.
\* ---------------------------------------------------------------------
\* one pass through the loop body at an unguarded scan of every pixel,
\* spreading to all four neighbours
DitherVisitUnguarded ==
    /\ pc = "dither"
    /\ scan[1] \in 0..(cur.height - 1)
    /\ scan[2] \in 0..(cur.width - 1)
    /\ LET y == scan[1]
           x == scan[2]
           targets == { << << y, x + 1 >>, 7 >>, << << y + 1, x - 1 >>, 3 >>,
                        << << y + 1, x >>, 5 >>, << << y + 1, x + 1 >>, 1 >> }
       IN /\ errorWrites' = errorWrites \cup { t[1] : t \in targets }
          /\ result' = result
          /\ scan' = IF x + 1 < cur.width THEN << y, x + 1 >> ELSE << y + 1, 0 >>
    /\ UNCHANGED << pc, method, img_array, cur, palette, km, calls, again,
                    hexVars, closestVars, paletteVars, outputVars, batchVars, stageVars, queryVars >>

\* one pass through the loop body, at pixel scan = (y, x)
DitherVisit ==
    /\ pc = "dither"
    /\ InScan(scan[1], scan[2], cur.height, cur.width)
    /\ LET y == scan[1]
           x == scan[2]
       IN /\ IF Alpha(cur.data[<< y, x >>]) = 0
             THEN UNCHANGED << result, errorWrites, palette >>
             ELSE /\ result' = QuantizeAndSpread(result, y, x, palette)
                  /\ errorWrites' = errorWrites \cup
                        { t[1] : t \in ErrorTargets(y, x, cur.height, cur.width) }
                  /\ palette' = PaletteAfterVisit(palette,
                                                  RGB(result.data[<< y, x >>]))
          /\ scan' = NextScan(y, x, cur.height, cur.width)
    \* the palette argument is the adapter's array the dispatcher passed
    /\ self_brand_palette' = IF calls[Len(calls)][2] = "brand_palette"
                                THEN palette' ELSE self_brand_palette
    /\ self_core_palette' = IF calls[Len(calls)][2] = "core_palette"
                               THEN palette' ELSE self_core_palette
    /\ UNCHANGED << pc, method, img_array, cur, km, calls, again,
                    hexVars, closestVars, outputVars, batchVars, stageVars, queryVars >>

\* the loops are over: return np.clip(result, 0, 255).astype(np.uint8)
DitherReturn ==
    /\ pc = "dither"
    /\ ~ InScan(scan[1], scan[2], cur.height, cur.width)
    /\ cur' = ClipToUint8(result)
    /\ pc' = "final"
    /\ arg_after' = InputAfterReturn(cur, cur')
    /\ UNCHANGED << method, img_array, ditherVars, km, calls, again,
                    hexVars, closestVars, paletteVars, outputVars, batchVars, stage_arg, queryVars >>

\* ---------------------------------------------------------------------
\* Direct calls.
\* ---------------------------------------------------------------------
\* final_brand_mapping(x)
CanonCall ==
    /\ pc = "canon_call"
    /\ cur' = final_brand_mapping(cur)
    /\ pc' = "canon_again"
    /\ calls' = Append(calls, << "final", 0 >>)
    /\ StageCalled(cur, cur')
    /\ UNCHANGED << method, img_array, ditherVars, km, again, hexVars, closestVars, paletteVars, outputVars, batchVars, queryVars >>

\* final_brand_mapping(final_brand_mapping(x))
CanonAgain ==
    /\ pc = "canon_again"
    /\ again' = final_brand_mapping(cur)
    /\ pc' = "canon_done"
    /\ calls' = Append(calls, << "final", 0 >>)
    /\ StageCalled(cur, again')
    /\ UNCHANGED << method, img_array, cur, ditherVars, km, hexVars, closestVars, paletteVars, outputVars, batchVars, queryVars >>

\* smart_color_quantization(buf, k)
QuantCall ==
    /\ pc = "quant_call"
    /\ \E k \in ClusterCounts : Quantize(k, "quant_done")
    /\ UNCHANGED << method, img_array, ditherVars, again, hexVars, closestVars, paletteVars, outputVars, batchVars, queryVars >>

\* hex_to_rgb(hex_color)
HexToRgb ==
    /\ pc = "hex_call"
    /\ rgb_color' = hex_to_rgb(hex_color)
    /\ pc' = "hex_parsed"
    /\ UNCHANGED << imageVars, hex_color, hex_result, closestVars, paletteVars, batchVars, queryVars >>

\* rgb_to_hex(rgb_color)
RgbToHex ==
    /\ pc = "hex_parsed"
    /\ hex_result' = rgb_to_hex(rgb_color)
    /\ pc' = "hex_done"
    /\ UNCHANGED << imageVars, hex_color, rgb_color, closestVars, paletteVars, batchVars, queryVars >>

\* find_closest_brand_color(color, use_extended_palette)
ClosestCall ==
    /\ pc = "closest_call"
    /\ closest' = find_closest_brand_color(color, use_extended_palette)
    /\ pc' = "closest_done"
    /\ UNCHANGED << imageVars, hexVars, color, use_extended_palette, paletteVars, batchVars, queryVars >>

\* ---------------------------------------------------------------------
\* _process_single_method: the loop over the files.
\* ---------------------------------------------------------------------
\* the loop body with the process_* call outside any try
ProcessFileUncaught ==
    /\ pc = "batch"
    /\ idx <= Len(files)
    /\ IF ~ files[idx].dir_ok
       THEN /\ pc' = "batch_raised"
            /\ UNCHANGED << idx, attempts, failed >>
       ELSE /\ attempts' = [attempts EXCEPT ![idx] = @ + 1]
            /\ IF files[idx].kind = "corrupt"
               THEN /\ pc' = "batch_raised"
                    /\ UNCHANGED << idx, failed >>
               ELSE /\ idx' = idx + 1
                    /\ UNCHANGED << pc, failed >>
    /\ UNCHANGED << files, imageVars, hexVars, closestVars, paletteVars, queryVars >>

\* one pass through the loop body for files[idx]: the mkdir of the output
\* directory (line 297) is outside the try and its error leaves the method;
\* process_svg returns; process_raster_image_advanced returns, or logs and
\* re-raises (lines 223-225) what Image.open raised, which the except of
\* lines 304-305 logs before the loop goes on
ProcessFile ==
    /\ pc = "batch"
    /\ idx <= Len(files)
    /\ IF ~ files[idx].dir_ok
       THEN /\ pc' = "batch_raised"
            /\ UNCHANGED << idx, attempts, failed >>
       ELSE /\ attempts' = [attempts EXCEPT ![idx] = @ + 1]
            /\ failed' = IF files[idx].kind = "corrupt"
                         THEN Append(failed, idx) ELSE failed
            /\ idx' = idx + 1
            /\ UNCHANGED pc
    /\ UNCHANGED << files, imageVars, hexVars, closestVars, paletteVars, queryVars >>

\* the list is exhausted: the method returns
BatchReturn ==
    /\ pc = "batch"
    /\ idx > Len(files)
    /\ pc' = "batch_done"
    /\ UNCHANGED << batchVars, imageVars, hexVars, closestVars, paletteVars, queryVars >>

\* ---------------------------------------------------------------------
\* _query_overpass: the retry loop.
\* ---------------------------------------------------------------------
\* the try of one attempt (lines 140-149): the request is sent; a response
\* of status 200 whose JSON passes 'elements' in data is returned; anything
\* requests.post, response.json() or the in test raises is caught by
\* except Exception, and so is left as a failed attempt
QueryAttempt ==
    /\ pc = "query_try"
    /\ attempt < max_retries
    /\ requests' = Append(requests, attempt)
    /\ LET r == responses[attempt + 1]
       IN IF /\ ~ r.raises
             /\ r.status = 200
             /\ r.json = "valid"
             /\ ~ InRaises(r.data)
             /\ In(r.data)
          THEN /\ returned' = r.data
               /\ pc' = "query_done"
          ELSE /\ pc' = "query_pause"
               /\ UNCHANGED returned
    /\ UNCHANGED << responses, attempt, sleeps, raised, imageVars, hexVars,
                    closestVars, paletteVars, batchVars >>

\* after a failed attempt (lines 151-153): time.sleep(2) unless it was the
\* last one, then the next turn of the loop
QueryPause ==
    /\ pc = "query_pause"
    /\ sleeps' = IF attempt < max_retries - 1
                 THEN Append(sleeps, << attempt, SleepSeconds >>) ELSE sleeps
    /\ attempt' = attempt + 1
    /\ pc' = "query_try"
    /\ UNCHANGED << responses, requests, raised, returned, imageVars, hexVars,
                    closestVars, paletteVars, batchVars >>

\* the loop is over (lines 155-156): return {'elements': []}
QueryFallback ==
    /\ pc = "query_try"
    /\ attempt >= max_retries
    /\ returned' = FallbackData
    /\ pc' = "query_done"
    /\ UNCHANGED << responses, attempt, requests, sleeps, raised, imageVars,
                    hexVars, closestVars, paletteVars, batchVars >>

Next ==
    \/ Smart
    \/ Dithered
    \/ SmoothBlur
    \/ SmoothFilter
    \/ SmoothMap
    \/ HybridFilter
    \/ HybridQuantize
    \/ HybridDither
    \/ Fallback
    \/ Final
    \/ FinalSmoothing
    \/ Save
    \/ DitherVisit
    \/ DitherReturn
    \/ CanonCall
    \/ CanonAgain
    \/ QuantCall
    \/ HexToRgb
    \/ RgbToHex
    \/ ClosestCall
    \/ ProcessFile
    \/ BatchReturn
    \/ QueryAttempt
    \/ QueryPause
    \/ QueryFallback

Spec == Init /\ [][Next]_vars

\* ---------------------------------------------------------------------
\* Properties.
\* ---------------------------------------------------------------------
Last(q) == q[Len(q)]
TransparentInput == { p \in Positions(img_array) : Alpha(img_array.data[p]) = 0 }
CoreColours == { primary_color, accent_color, white_color }
BlendColours == { blend_primary_white, blend_primary_accent, blend_accent_white }
NearCore(c) ==
    \E k \in CoreColours : Dist2(k, c) <= Tolerance * Tolerance

\* C1 (as stated): for every strategy, a pixel whose input alpha is 0 has
\* the same R, G, B and alpha after the strategy's stage chain and the
\* canonicalization pass as in the input.
C1_TransparentUntouched ==
    pc = "done" =>
        \A p \in TransparentInput : cur.data[p] = img_array.data[p]

\* C1 (amended): a pixel whose input alpha is 0 keeps alpha 0 under every
\* strategy, and keeps its R, G, B too under every strategy but smooth and
\* hybrid, whose smoothing stages rewrite the R, G, B of every pixel.
C1_TransparentUntouchedUnlessSmoothed ==
    pc = "done" =>
        \A p \in TransparentInput :
            /\ Alpha(cur.data[p]) = 0
            /\ method \notin { "smooth", "hybrid" } => cur.data[p] = img_array.data[p]

\* C1 witness: a dithered run is done in which error was added to a
\* transparent pixel next to an opaque, visited one.
C1_Witness ==
    /\ pc = "done"
    /\ method = "dithered"
    /\ \E p \in errorWrites : Alpha(img_array.data[p]) = 0
    /\ OpaquePositions(img_array) # {}

\* C2: in the buffer returned by final_brand_mapping every pixel with
\* alpha > 0 is within distance 5 of a core colour, so none carries one of
\* the three blend colours.
C2_OpaqueWithinTolerance ==
    pc \in { "done", "canon_again", "canon_done" } =>
        \A p \in OpaquePositions(cur) :
            /\ NearCore(RGB(cur.data[p]))
            /\ RGB(cur.data[p]) \notin BlendColours

\* C2 witness: a dithered run is done in which one opaque pixel was replaced
\* by the pass and another, within the tolerance, was kept as it was.
C2_Witness ==
    /\ pc = "done"
    /\ method = "dithered"
    /\ \E p \in OpaquePositions(cur) : RGB(cur.data[p]) = << 7, 27, 47 >>
    /\ \E p \in OpaquePositions(cur) : cur.data[p] # img_array.data[p]

\* C3 (as stated): after the canonicalization pass the R, G, B of every
\* opaque pixel is exactly one of the three core colours.
C3_OpaqueExactlyCore ==
    pc = "done" =>
        \A p \in OpaquePositions(cur) : RGB(cur.data[p]) \in CoreColours

\* C4: final_brand_mapping(final_brand_mapping(x)) = final_brand_mapping(x).
C4_CanonIdempotent ==
    pc = "canon_done" => again = cur

\* C4 witness: both passes ran on a buffer of which the first pass replaced
\* one pixel and kept another that is not a core colour.
C4_Witness ==
    /\ pc = "canon_done"
    /\ \E p \in OpaquePositions(cur) : cur.data[p] # img_array.data[p]
    /\ \E p \in OpaquePositions(cur) : RGB(cur.data[p]) \notin CoreColours

\* C5 (as stated): with strategy fallback every opaque input pixel ends with
\* the core colour nearest to that pixel's own input R, G, B.
C5_FallbackNearestCore ==
    (pc = "done" /\ method = "fallback") =>
        \A p \in OpaquePositions(img_array) :
            /\ RGB(cur.data[p]) \in CoreColours
            /\ \A k \in CoreColours :
                   Dist2(RGB(cur.data[p]), RGB(img_array.data[p]))
                       <= Dist2(k, RGB(img_array.data[p]))

\* the state right after floyd_steinberg_dither has returned
DitherReturned ==
    /\ pc = "final"
    /\ calls # << >>
    /\ Last(calls)[1] = "dither"

\* C6 (as stated): for a fully opaque input, every pixel of the buffer
\* floyd_steinberg_dither returns has an R, G, B of the given palette.
C6_DitherOnlyPaletteColours ==
    (DitherReturned /\ OpaquePositions(cur) = Positions(cur)) =>
        \A p \in Positions(cur) : RGB(cur.data[p]) \in Range(palette)

\* C7: floyd_steinberg_dither adds error only at coordinates inside the
\* buffer, and terminates: every pass through the loop body leaves fewer
\* loop positions to come, and with none left the function returns.
C7_DitherInBoundsAndTerminates ==
    /\ [](errorWrites \subseteq Positions(cur))
    /\ [](pc = "dither" =>
            \/ ScanRemaining(scan[1], scan[2], cur.height, cur.width) > 0
            \/ ENABLED DitherReturn)
    /\ [][(pc = "dither" /\ pc' = "dither") =>
            ScanRemaining(scan'[1], scan'[2], cur.height, cur.width)
                < ScanRemaining(scan[1], scan[2], cur.height, cur.width)]_vars

\* C7 witness: the dither call on a 2x3 buffer has returned after adding
\* error to the right, below-left, below and below-right neighbours of the
\* one pixel it visits.
C7_Witness ==
    /\ DitherReturned
    /\ errorWrites = { << 0, 2 >>, << 1, 0 >>, << 1, 1 >>, << 1, 2 >> }

\* C8 (as stated): for a string s of six hexadecimal digits,
\* rgb_to_hex(hex_to_rgb(s)) is s in lower case.
C8_RoundTripIsLower ==
    (pc = "hex_done" /\ Len(hex_color) = 6) =>
        hex_result = Lower(hex_color)

\* C8 (amended): for a string s of six hexadecimal digits,
\* rgb_to_hex(hex_to_rgb(s)) is '#' followed by s in lower case.
C8_RoundTripIsHashLower ==
    (pc = "hex_done" /\ Len(hex_color) = 6) =>
        hex_result = << "#" >> \o Lower(hex_color)

\* C8 witness: the round trip of a mixed-case string is done.
C8_Witness ==
    /\ pc = "hex_done"
    /\ hex_color = << "F", "a", "9", "F", "a", "9" >>

\* the state right after smart_color_quantization has returned or raised
QuantizeReturned ==
    /\ calls # << >>
    /\ Last(calls)[1] = "quantize"

\* the number of distinct opaque colours of the buffer given to the last
\* smart_color_quantization call (the first stage of its run, except under
\* hybrid)
QuantizeDistinct ==
    IF Len(calls) = 1 THEN Cardinality(OpaqueColours(img_array)) ELSE km.distinct

\* C9: smart_color_quantization(buf, k) on a buffer with d >= 1 distinct
\* opaque colours and k > d raises nothing, clusters with min(k, d) = d
\* clusters and returns at most d distinct opaque colours.
C9_ClusterClamp ==
    (/\ QuantizeReturned
     /\ QuantizeDistinct >= 1
     /\ Last(calls)[2] > QuantizeDistinct) =>
        /\ pc # "error"
        /\ km.used = QuantizeDistinct
        /\ Cardinality(OpaqueColours(cur)) <= QuantizeDistinct

\* C9 witness: a direct call with k = 8 on a buffer of two distinct opaque
\* colours has returned.
C9_Witness ==
    /\ pc = "quant_done"
    /\ Last(calls)[2] = 8
    /\ Cardinality(OpaqueColours(img_array)) = 2
    /\ km.used = 2

\* C10: find_closest_brand_color returns a colour of the selected palette
\* at minimal distance of the argument's R, G, B, the first such in palette
\* order; a fourth (alpha) component of the argument plays no part.
C10_ClosestIsFirstNearest ==
    pc = "closest_done" =>
        LET pal == IF use_extended_palette THEN brand_palette ELSE core_palette
            c == << color[1], color[2], color[3] >>
        IN /\ Len(pal) = IF use_extended_palette THEN 6 ELSE 3
           /\ \E i \in DOMAIN pal :
                /\ closest = pal[i]
                /\ \A j \in DOMAIN pal : Dist2(pal[i], c) <= Dist2(pal[j], c)
                /\ \A j \in DOMAIN pal : j < i => Dist2(pal[j], c) > Dist2(pal[i], c)

\* C10 witness: the call is done for a colour with alpha 0 that is at the
\* same distance of accent and white, and accent, the earlier one, came out.
C10_Witness ==
    /\ pc = "closest_done"
    /\ color = << 255, 106, 177, 0 >>
    /\ ~ use_extended_palette
    /\ closest = accent_color

\* C11: every stage, and so every chain of stages, returns a buffer of the
\* shape of its input in which each pixel has the alpha it had in the
\* input: the buffer handed from stage to stage, the float buffer of the
\* dither while it runs, and the result of a repeated canonicalization
\* all carry the alpha channel of the decoded input.
SameAlpha(a, b) ==
    /\ a.height = b.height
    /\ a.width = b.width
    /\ \A p \in Positions(b) : Alpha(a.data[p]) = Alpha(b.data[p])

C11_AlphaPreserved ==
    /\ (pc \notin {"hex_call", "hex_parsed", "hex_done",
                   "closest_call", "closest_done", "error"})
          => SameAlpha(cur, img_array)
    /\ pc = "dither" =>
          /\ result.height = img_array.height
          /\ result.width = img_array.width
          /\ \A p \in Positions(img_array) :
                Alpha(result.data[p]) = FloatScale * Alpha(img_array.data[p])
    /\ pc = "canon_done" => SameAlpha(again, img_array)

C11_Witness ==
    /\ pc = "done"
    /\ method = "hybrid"
    /\ cur # img_array
    /\ \E p, q \in Positions(img_array) :
          /\ Alpha(img_array.data[p]) = 128
          /\ Alpha(img_array.data[q]) = 0
          /\ Alpha(cur.data[p]) = 128
          /\ Alpha(cur.data[q]) = 0

\* C12: in every reachable state - after any lookup, any stage call and
\* any step of a whole-image transform - the adapter's Core Palette holds
\* the three colours and its Extended Palette the six colours the
\* constructor gave them, and the palette a running dither reads is one of
\* the two.
C12_PalettesUnchanged ==
    /\ self_core_palette = core_palette
    /\ self_brand_palette = brand_palette
    /\ Len(self_core_palette) = 3
    /\ Len(self_brand_palette) = 6
    /\ pc = "dither" => palette \in { core_palette, brand_palette }

C12_Witness ==
    /\ pc = "done"
    /\ method = "hybrid"
    /\ img_array.height = 2
    /\ img_array.width = 3
    /\ img_array.data[<< 0, 1 >>] = << 255, 0, 0, 255 >>
    /\ errorWrites # {}
    /\ self_core_palette = core_palette

\* the names of the stages called so far, in order
StageNames(q) == [i \in DOMAIN q |-> q[i][1]]
IsPrefix(a, b) == Len(a) <= Len(b) /\ a = SubSeq(b, 1, Len(a))
Chains ==
    { << "quantize" >>, << "dither" >>, << "blur", "edge", "map" >>,
      << "edge", "quantize", "dither" >>, << "map" >> }
FinalCalls == { i \in DOMAIN calls : calls[i][1] = "final" }
Transforming == method \in Methods
AfterFinal == pc \in { "done", "save", "saved" }

\* C13: in a whole-image transform, for every strategy value, the stages
\* run before the canonicalization are a prefix of one of the five chains;
\* the canonicalization starts on a completed chain; once it has run it has
\* run exactly once, directly after the one chain, and before the final
\* smoothing and the save; the save step is never reached without it.
C13_OneChainThenFinal ==
    Transforming =>
        /\ ~ AfterFinal =>
              /\ FinalCalls = {}
              /\ \E c \in Chains : IsPrefix(StageNames(calls), c)
        /\ pc = "final" => StageNames(calls) \in Chains
        /\ AfterFinal =>
              /\ Cardinality(FinalCalls) = 1
              /\ \E k \in FinalCalls :
                    /\ StageNames(SubSeq(calls, 1, k - 1)) \in Chains
                    /\ \A i \in DOMAIN calls :
                          calls[i][1] \in { "smooth_more", "save" } => i > k
        /\ pc = "saved" => FinalCalls # {}

C13_Witness ==
    /\ pc = "saved"
    /\ method = "posterize"
    /\ StageNames(calls) = << "map", "final", "smooth_more", "save" >>

\* the stage chain of the table, with its parameters (sigma in tenths)
TableChain(m) ==
    CASE m = "smart" -> << << "quantize", 8 >> >>
      [] m = "dithered" -> << << "dither", "brand_palette" >> >>
      [] m = "smooth" -> << << "blur", 6 >>, << "edge", 0 >>, << "map", 0 >> >>
      [] m = "hybrid" -> << << "edge", 0 >>, << "quantize", 6 >>,
                            << "dither", "core_palette" >> >>
      [] OTHER -> << << "map", 0 >> >>

\* C14: the stages a transform has called are, at every moment, the first
\* stages of the table's chain for its strategy, in the table's order and
\* with the table's parameters, followed by the canonicalization; the
\* position of the run tells how many have been called (a stage is called
\* only when the previous one has returned), and while the dither loops
\* run the dither is the last stage called and reads the palette the table
\* names.
C14_TableChains ==
    Transforming =>
        LET chain == TableChain(method)
            full == chain \o << << "final", 0 >>, << "smooth_more", 0 >>,
                                << "save", 0 >> >>
        IN /\ IsPrefix(calls, full)
           /\ pc = "dispatch" <=> calls = << >>
           /\ pc \in { "final", "dither" } <=> calls = chain
           /\ pc = "done" <=> Len(calls) = Len(chain) + 1
           /\ pc \in { "smooth_filter", "hybrid_quantize" } => Len(calls) = 1
           /\ pc \in { "smooth_map", "hybrid_dither" } => Len(calls) = 2
           /\ pc = "dither" =>
                 /\ calls = chain
                 /\ palette = IF method = "hybrid" THEN core_palette
                                                  ELSE brand_palette

C14_Witness ==
    /\ pc = "done"
    /\ method = "hybrid"
    /\ calls = << << "edge", 0 >>, << "quantize", 6 >>,
                  << "dither", "core_palette" >>, << "final", 0 >> >>
    /\ km.requested = 6

Batching == pc \in { "batch", "batch_done", "batch_raised" }
Corrupt == { i \in DOMAIN files : files[i].kind = "corrupt" }
Unwritable == { i \in DOMAIN files : ~ files[i].dir_ok }

C16_ReplacedIffBeyondFive ==
    pc = "canon_again" =>
        \A p \in OpaquePositions(img_array) :
            LET old == RGB(img_array.data[p])
                new == RGB(cur.data[p])
            IN IF \A k \in CoreColours : Dist2(k, old) > 25
               THEN /\ new \in CoreColours
                    /\ \A k \in CoreColours : Dist2(new, old) <= Dist2(k, old)
               ELSE new = old

C16_Witness ==
    /\ pc = "canon_again"
    /\ \E p, q \in OpaquePositions(img_array) :
          /\ RGB(img_array.data[p]) = << 10, 31, 44 >>
          /\ Dist2(primary_color, << 10, 31, 44 >>) = 25
          /\ RGB(cur.data[p]) = << 10, 31, 44 >>
          /\ RGB(img_array.data[q]) = << 7, 27, 50 >>
          /\ RGB(cur.data[q]) = primary_color

\* the neighbours of (y, x) the dither spreads to, with the numerators of
\* their sixteenths
SpreadWeights(y, x) ==
    { << << y, x + 1 >>, 7 >>, << << y + 1, x - 1 >>, 3 >>,
      << << y + 1, x >>, 5 >>, << << y + 1, x + 1 >>, 1 >> }

\* C17 (as stated): a pass of the dither's loop body on an opaque pixel adds
\* to each existing neighbour (right, below-left, below, below-right) its
\* 7, 3, 5 or 1 sixteenths of the error, the error being the pixel's
\* accumulated R, G, B before the pass minus the palette colour written.
C17_ErrorIsOldMinusChosen ==
    [][(pc = "dither" /\ pc' = "dither" /\ scan' # scan
          /\ Alpha(cur.data[scan]) > 0)
        => \A t \in SpreadWeights(scan[1], scan[2]) :
              t[1] \in Positions(cur) =>
                 \A i \in 1..3 :
                    FloatScale * (result'.data[t[1]][i] - result.data[t[1]][i])
                      = t[2] * (result.data[scan][i] - result'.data[scan][i])]_vars

RowMajorBefore(p, q) == p[1] < q[1] \/ (p[1] = q[1] /\ p[2] < q[2])

\* the pixels a running dither has quantized: the opaque pixels of the
\* loops' range that come before the loop position
Written ==
    { p \in Positions(cur) :
        /\ InScan(p[1], p[2], cur.height, cur.width)
        /\ RowMajorBefore(p, scan)
        /\ Alpha(cur.data[p]) > 0 }

\* C18: the dither's loop position only moves forward in row-major order;
\* a pass adds error only to pixels that come after the visited one in
\* that order; every pixel already quantized holds a colour of the palette,
\* no later pass changes it, and it is the colour the call returns for it.
C18_WrittenPixelsStay ==
    /\ [](pc = "dither" =>
            \A p \in Written :
                \E c \in Range(palette) :
                    RGB(result.data[p]) = << FloatScale * c[1], FloatScale * c[2],
                                            FloatScale * c[3] >>)
    /\ [][(pc = "dither" /\ pc' = "dither") =>
            /\ RowMajorBefore(scan, scan')
            /\ \A t \in errorWrites' \ errorWrites : RowMajorBefore(scan, t)
            /\ \A p \in Positions(cur) :
                  result'.data[p] # result.data[p] =>
                      (p = scan \/ RowMajorBefore(scan, p))
            /\ \A p \in Written : result'.data[p] = result.data[p]]_vars
    /\ [][(pc = "dither" /\ pc' = "final") =>
            \A p \in Written :
                \A i \in 1..3 : FloatScale * cur'.data[p][i] = result.data[p][i]]_vars

C18_Witness ==
    /\ pc = "dither"
    /\ img_array = SmoothingBuffer
    /\ method = "dithered"
    /\ scan = << 3, 1 >>
    /\ << 2, 2 >> \in Written
    /\ << 2, 2 >> \in errorWrites
    /\ RGB(result.data[<< 2, 2 >>]) =
          << FloatScale * 131, FloatScale * 105, FloatScale * 36 >>

\* C19 (as stated): the image handed to the save step is the buffer the
\* canonicalization returned, pixel for pixel in R, G, B and alpha, so each
\* of its opaque pixels is within the tolerance of a core colour.
C19_EncoderGetsCanonical ==
    pc \in { "save", "saved" } =>
        /\ new_img = cur
        /\ \A p \in OpaquePositions(new_img) : NearCore(RGB(new_img.data[p]))

\* a call of smart_color_quantization on the decoded input has returned
QuantizedInput ==
    \/ pc = "quant_done"
    \/ pc = "final" /\ method = "smart"

\* the opaque pixels of the input assigned to the cluster of pixel p
ClusterOf(p) ==
    { q \in OpaquePositions(img_array) :
        km.labels[RGB(img_array.data[q])] = km.labels[RGB(img_array.data[p])] }

\* C20: after smart_color_quantization on a buffer with an opaque pixel,
\* every opaque pixel holds a colour of the Extended Palette that is at the
\* least distance of the centroid (the mean R, G, B) of the pixels assigned
\* to its cluster, and all the pixels of a cluster hold the same colour; a
\* buffer without opaque pixel is returned as it is.
C20_NearestToCentroid ==
    QuantizedInput =>
        IF OpaquePositions(img_array) = {}
        THEN cur = img_array
        ELSE /\ \A p \in OpaquePositions(img_array) :
                   km.labels[RGB(img_array.data[p])] \in 1..km.used
             /\ Len(brand_palette) = 6
             /\ \A j \in 1..km.used :
                   LET members == { q \in OpaquePositions(img_array) :
                                       km.labels[RGB(img_array.data[q])] = j }
                       size == Cardinality(members)
                       total == [i \in 1..3 |->
                                   SumOver(members,
                                           [q \in members |-> img_array.data[q][i]])]
                   IN \E new \in Range(brand_palette) :
                         /\ \A c \in Range(brand_palette) :
                               Dist2Scaled(new, total, size)
                                 <= Dist2Scaled(c, total, size)
                         /\ \A q \in members : RGB(cur.data[q]) = new

C20_Witness ==
    /\ pc = "quant_done"
    /\ img_array = ScenarioBuffer
    /\ km.used = 2
    /\ ClusterOf(<< 0, 0 >>) = { << 0, 0 >>, << 1, 1 >> }
    /\ RGB(cur.data[<< 0, 0 >>]) = blend_primary_accent
    /\ RGB(cur.data[<< 1, 1 >>]) = blend_primary_accent
    /\ RGB(cur.data[<< 0, 1 >>]) # blend_primary_accent

\* the strategy is none of the four the dispatcher names
Unnamed == Transforming /\ method \notin { "smart", "dithered", "smooth", "hybrid" }

\* C21: a transform whose strategy is none of 'smart', 'dithered', 'smooth',
\* 'hybrid' - 'fallback' or an unrecognised value - never stands in an
\* error; its first stage is simple_color_mapping of the input, the
\* canonicalization of that follows, and it goes on to the save.
C21_UnnamedIsFallback ==
    Unnamed =>
        /\ pc \in { "dispatch", "final", "done", "save", "saved" }
        /\ pc = "final" =>
              /\ calls = << << "map", 0 >> >>
              /\ cur = simple_color_mapping(img_array)
        /\ AfterFinal =>
              /\ SubSeq(calls, 1, 2) = << << "map", 0 >>, << "final", 0 >> >>
              /\ cur = final_brand_mapping(simple_color_mapping(img_array))

C21_Witness ==
    /\ pc = "saved"
    /\ method = "posterize"
    /\ img_array = ScenarioBuffer
    /\ cur # img_array
    /\ saved.format = "png"

\* C22: whenever a stage has returned - and while the dither's loops run -
\* the buffer that stage was given holds, pixel for pixel, what it held
\* when it was handed over; the quantizer's result on a buffer without
\* opaque pixel is that same unmodified buffer; and the decoded input of a
\* transform is never changed by the chain run on it.
C22_InputsIntact ==
    /\ arg_after = stage_arg
    /\ (Transforming /\ Len(calls) = 1) => stage_arg = img_array
    /\ (calls # << >> /\ Last(calls)[1] = "quantize" /\ pc # "error"
          /\ OpaquePositions(stage_arg) = {}) => cur = stage_arg
    /\ pc = "canon_done" => stage_arg = cur

C22_Witness ==
    /\ pc = "done"
    /\ method = "hybrid"
    /\ stage_arg # NoBuffer
    /\ stage_arg # cur
    /\ stage_arg # img_array
    /\ arg_after = stage_arg

Querying == pc \in { "query_try", "query_pause", "query_done" }

\* the attempts whose response has status 200 and a JSON object with an
\* 'elements' key
Good ==
    { k \in DOMAIN responses :
        /\ ~ responses[k].raises
        /\ responses[k].status = 200
        /\ responses[k].json = "valid"
        /\ responses[k].data.type = "dict"
        /\ responses[k].data.has }

\* sleeps of 2 seconds after each of the attempts 0 .. n - 1
SleepsAfterFirst(n) == [i \in 1..n |-> << i - 1, 2 >>]

\* C23 (as stated): _query_overpass sends at most 3 requests and lets no
\* exception out; when it has returned, the value is that of the first
\* attempt whose response has status 200 and an 'elements' key, that
\* attempt's request was the last one sent and a sleep followed each
\* attempt before it; with no such attempt, three requests were sent, a
\* sleep followed the first and the second only, and the value is
\* {'elements': []}; in either case the value has an 'elements' key.
C23_QueryContract ==
    Querying =>
        /\ Len(requests) <= 3
        /\ ~ raised
        /\ pc = "query_done" =>
              /\ IF Good # {}
                 THEN LET first == CHOOSE k \in Good : \A j \in Good : k <= j
                      IN /\ returned = responses[first].data
                         /\ Len(requests) = first
                         /\ sleeps = SleepsAfterFirst(first - 1)
                 ELSE /\ returned = FallbackData
                      /\ Len(requests) = 3
                      /\ sleeps = SleepsAfterFirst(2)
              /\ returned.type = "dict"
              /\ returned.has
====
